---- MODULE Spec2Model ----
(***************************************************************************)
(* Product catalogue API: the create / validate endpoints over the         *)
(* products table, the fixed-window rate limiter over the Redis counter    *)
(* store, and the authentication / ownership dependencies.                 *)
(*                                                                         *)
(* The specifications share the variables:                                 *)
(*   Spec         product endpoints, concurrent requests on one table      *)
(*   SpecRateSeq  rate limiter, one request at a time                      *)
(*   SpecRate     rate limiter, GET and SETEX/INCR as separate steps       *)
(*   SpecAuth     authentication tiers and product ownership               *)
(*   SpecDb       the get_db session generator around a request            *)
(*   SpecStock    the product endpoints under bodies varying stock, price  *)
(*   SpecTags     ProductCreate applied to tag lists                       *)
(*                                                                         *)
(* Requests are served by several workers against one database and one     *)
(* Redis.  A create request is two steps (the pre-check, then insert and   *)
(* commit) and a rate-limited request is two steps (GET, then SETEX or     *)
(* INCR); steps of different requests interleave freely.                   *)
(***************************************************************************)
EXTENDS Integers, Sequences, FiniteSets, TLC

VARIABLES
    products,        \* rows of table "products"
    req,             \* per worker: the product request it is serving
    last,            \* the product request answered most recently
    rl,              \* Redis: key "rate_limit:<ip>" -> [exists, value, ttl]
    max_requests,    \* rate_limit(max_requests, ...) closure parameter
    window_minutes,  \* rate_limit(..., window_minutes) closure parameter
    rreq,            \* per worker: the rate-limited request it is serving
    rlast,           \* the rate-limited request answered most recently
    accepted,        \* per ip: requests accepted in the current window
    handled,         \* per ip: requests handled in the current window
    users,           \* rows of table "users"
    areq,            \* last request through the auth dependencies
    sess,            \* per worker: the get_db generator of its request
    tagreq           \* a create request with a tag list, and its outcome

pvars == <<products, req, last>>
rvars == <<rl, max_requests, window_minutes, rreq, rlast, accepted, handled>>
avars == <<users, areq>>
dvars == <<sess, tagreq>>
vars  == <<products, req, last, rl, max_requests, window_minutes, rreq, rlast,
           accepted, handled, users, areq, sess, tagreq>>

\* ------------------------------------------------------------------------
\* Bounds of the model
\* ------------------------------------------------------------------------
MaxClients == 2
MaxMaxRequests == 2
MaxWindowMinutes == 1
MaxHandled == 5

Clients == 1 .. MaxClients

\* ------------------------------------------------------------------------
\* Python str operations used by the schema validators
\* ------------------------------------------------------------------------
LowerAlpha == <<"a","b","c","d","e","f","g","h","i","j","k","l","m",
                "n","o","p","q","r","s","t","u","v","w","x","y","z">>
UpperAlpha == <<"A","B","C","D","E","F","G","H","I","J","K","L","M",
                "N","O","P","Q","R","S","T","U","V","W","X","Y","Z">>

IsLowerCh(c) == \E i \in 1 .. Len(LowerAlpha) : LowerAlpha[i] = c
IsUpperCh(c) == \E i \in 1 .. Len(UpperAlpha) : UpperAlpha[i] = c
IsCased(c)   == IsLowerCh(c) \/ IsUpperCh(c)
IsSpace(c)   == c \in {" ", "\t", "\n"}

LowerCh(c) ==
    IF IsUpperCh(c)
    THEN LowerAlpha[CHOOSE i \in 1 .. Len(UpperAlpha) : UpperAlpha[i] = c]
    ELSE c

UpperCh(c) ==
    IF IsLowerCh(c)
    THEN UpperAlpha[CHOOSE i \in 1 .. Len(LowerAlpha) : LowerAlpha[i] = c]
    ELSE c

\* str.lower()
StrLower(s) == [i \in 1 .. Len(s) |-> LowerCh(s[i])]

RECURSIVE LStrip(_)
LStrip(s) ==
    IF s # <<>> /\ IsSpace(Head(s)) THEN LStrip(Tail(s)) ELSE s

RECURSIVE RStrip(_)
RStrip(s) ==
    IF s # <<>> /\ IsSpace(s[Len(s)])
    THEN RStrip(SubSeq(s, 1, Len(s) - 1))
    ELSE s

\* str.strip()
StrStrip(s) == RStrip(LStrip(s))

\* str.title(): a cased character is upper-cased when it follows an
\* uncased one (or starts the string) and lower-cased otherwise.
StrTitle(s) ==
    [i \in 1 .. Len(s) |->
        IF i = 1 \/ ~IsCased(s[i - 1]) THEN UpperCh(s[i]) ELSE LowerCh(s[i])]

\* ------------------------------------------------------------------------
\* Numbers as requests, Redis and the JWT carry them: decimal strings
\* ------------------------------------------------------------------------
Digits == <<"0","1","2","3","4","5","6","7","8","9">>

IsDigit(ch) == \E i \in 1 .. 10 : Digits[i] = ch
DigitValue(ch) == (CHOOSE i \in 1 .. 10 : Digits[i] = ch) - 1

\* str(n) for n >= 0
RECURSIVE IntToStr(_)
IntToStr(n) ==
    IF n < 10 THEN <<Digits[n + 1]>>
    ELSE IntToStr(n \div 10) \o <<Digits[(n % 10) + 1]>>

RECURSIVE DigitsValue(_)
DigitsValue(s) ==
    IF s = <<>> THEN 0
    ELSE 10 * DigitsValue(SubSeq(s, 1, Len(s) - 1)) + DigitValue(s[Len(s)])

\* int(s): surrounding whitespace is ignored; anything but a non-empty
\* run of digits raises ValueError (ok = FALSE)
StrToInt(s) ==
    LET t == StrStrip(s) IN
    IF t # <<>> /\ \A i \in 1 .. Len(t) : IsDigit(t[i])
    THEN [ok |-> TRUE, value |-> DigitsValue(t)]
    ELSE [ok |-> FALSE, value |-> 0]

\* ------------------------------------------------------------------------
\* Request payloads
\* ------------------------------------------------------------------------
\* SKUs that match ^[A-Z0-9\-]{5,20}$
Skus == {"ABC-12345", "XYZ-00001"}

RawNames ==
    { <<"d","e","s","k">>,
      <<" ","D","E","S","K"," ">>,
      <<"o","a","k"," ","d","E","S","K">>,
      <<"l","a","m","p">>,
      <<"i","t","e","m">>,
      <<" ","I","t","e","m">>,
      <<"a","b">> }

\* A body is the JSON object sent: price is the text of price.amount,
\* in_stock the text of the member ("absent" when the body has none),
\* tags the list of tag strings.
Body(name, sku, price, tags, in_stock) ==
    [name |-> name, sku |-> sku, price |-> price, tags |-> tags,
     in_stock |-> in_stock]

\* Request bodies: two SKUs under one name, two names under one SKU
RawPayloads ==
    {Body(n, "ABC-12345", <<"9",".","9","9">>, <<>>, "absent") : n \in RawNames}
      \cup {Body(<<"d","e","s","k">>, k, <<"9",".","9","9">>, <<>>, "absent") :
                k \in Skus}

NameMinLength == 3
NameMaxLength == 100

forbidden_words ==
    { <<"p","r","o","d","u","c","t","o">>,
      <<"a","r","t","í","c","u","l","o">>,
      <<"i","t","e","m">>,
      <<"t","h","i","n","g">>,
      <<"o","b","j","e","t","o">> }

SkuExistsMsg  == "SKU ya existe en el sistema"
NameExistsMsg == "Ya existe un producto con este nombre"
GenericNameMsg == "El nombre no puede ser una palabra genérica"
NameLengthMsg  == "ensure this value has between 3 and 100 characters"

Ok(v)    == [ok |-> TRUE, value |-> v, error |-> ""]
Fail(m)  == [ok |-> FALSE, value |-> <<>>, error |-> m]

\* ProductCreate.validate_name
validate_name(v) ==
    IF StrStrip(StrLower(v)) \in forbidden_words
    THEN Fail(GenericNameMsg)
    ELSE Ok(StrTitle(StrStrip(v)))

\* name: str = Field(..., min_length=3, max_length=100), then the validator
NameField(v) ==
    IF Len(v) < NameMinLength \/ Len(v) > NameMaxLength
    THEN Fail(NameLengthMsg)
    ELSE validate_name(v)

\* ------------------------------------------------------------------------
\* price.amount: Decimal, gt=0, max_digits=10, decimal_places=2
\* ------------------------------------------------------------------------
AmountMaxDigits     == 10
AmountDecimalPlaces == 2

DecimalInvalidMsg == "value is not a valid decimal"
DecimalPlacesMsg  == "ensure that there are no more than 2 decimal places"
DecimalDigitsMsg  == "ensure that there are no more than 10 digits in total"
DecimalGtMsg      == "ensure this value is greater than 0"

AllDigits(s) == s # <<>> /\ \A i \in 1 .. Len(s) : IsDigit(s[i])

RECURSIVE StripZeros(_)
StripZeros(s) ==
    IF s # <<>> /\ Head(s) = "0" THEN StripZeros(Tail(s)) ELSE s

\* Decimal(text) for the texts "I" and "I.F": whole the digits before the
\* point, frac the digits after it
SplitDecimal(s) ==
    LET points == {i \in 1 .. Len(s) : s[i] = "."} IN
    IF points = {}
    THEN [ok |-> AllDigits(s), whole |-> s, frac |-> <<>>]
    ELSE LET i == CHOOSE j \in points : TRUE
             w == SubSeq(s, 1, i - 1)
             f == SubSeq(s, i + 1, Len(s))
         IN [ok |-> Cardinality(points) = 1 /\ AllDigits(w) /\ AllDigits(f),
             whole |-> w, frac |-> f]

\* The amount in hundredths, for a text of at most two decimal places
Hundredths(d) ==
    100 * DigitsValue(d.whole)
      + (IF Len(d.frac) = 0 THEN 0
         ELSE IF Len(d.frac) = 1 THEN 10 * DigitsValue(d.frac)
         ELSE DigitsValue(d.frac))

\* PriceSchema.amount: the value is a Decimal kept as hundredths
AmountField(s) ==
    LET d == SplitDecimal(s)
        significant == Len(StripZeros(d.whole \o d.frac))
        digits == IF Len(d.frac) > significant THEN Len(d.frac)
                  ELSE significant
    IN  IF ~d.ok THEN Fail(DecimalInvalidMsg)
        ELSE IF digits > AmountMaxDigits THEN Fail(DecimalDigitsMsg)
        ELSE IF Len(d.frac) > AmountDecimalPlaces THEN Fail(DecimalPlacesMsg)
        ELSE IF ~(Hundredths(d) > 0) THEN Fail(DecimalGtMsg)
        ELSE Ok(Hundredths(d))

\* ------------------------------------------------------------------------
\* in_stock: bool = Field(True)
\* ------------------------------------------------------------------------
BoolTrue  == {"true", "1", "on", "t", "y", "yes"}
BoolFalse == {"false", "0", "off", "f", "n", "no"}
BoolMsg   == "value could not be parsed to a boolean"

InStockField(v) ==
    IF v = "absent" THEN Ok(TRUE)
    ELSE IF v \in BoolTrue THEN Ok(TRUE)
    ELSE IF v \in BoolFalse THEN Ok(FALSE)
    ELSE Fail(BoolMsg)

\* ------------------------------------------------------------------------
\* tags: List[str]
\* ------------------------------------------------------------------------
TagMaxLength == 30
MaxTags      == 10

EmptyTagMsg     == "Los tags no pueden estar vacíos"
TagLengthMsg    == "Cada tag debe tener máximo 30 caracteres"
DuplicateTagsMsg == "No puede haber tags duplicados"
TooManyTagsMsg  == "Máximo 10 tags permitidos"

\* ProductCreate.validate_tags (each_item=True)
validate_tags(v) ==
    IF v = <<>> \/ Len(StrStrip(v)) = 0 THEN Fail(EmptyTagMsg)
    ELSE IF Len(v) > TagMaxLength THEN Fail(TagLengthMsg)
    ELSE Ok(StrLower(StrStrip(v)))

\* Variant: without the comparison of len(v) and len(set(v))
validate_tags_uniqueness_off(v) ==
    IF Len(v) > MaxTags THEN Fail(TooManyTagsMsg) ELSE Ok(v)

\* ProductCreate.validate_tags_uniqueness
validate_tags_uniqueness(v) ==
    IF Len(v) # Cardinality({v[i] : i \in 1 .. Len(v)})
    THEN Fail(DuplicateTagsMsg)
    ELSE IF Len(v) > MaxTags THEN Fail(TooManyTagsMsg)
    ELSE Ok(v)

\* The item validator runs on every entry while the list is built; the
\* list validator runs on the list of the values it returned, and only
\* when no entry failed
TagsField(tags) ==
    LET items == [i \in 1 .. Len(tags) |-> validate_tags(tags[i])]
        bad   == {i \in 1 .. Len(tags) : ~items[i].ok}
    IN  IF bad # {}
        THEN Fail(items[CHOOSE i \in bad : \A j \in bad : i <= j].error)
        ELSE validate_tags_uniqueness(
                 [i \in 1 .. Len(tags) |-> items[i].value])

\* ------------------------------------------------------------------------
\* ProductCreate
\* ------------------------------------------------------------------------
StockPriceLimit == 1000
StockPriceMsg ==
    "Productos fuera de stock no pueden tener precio mayor a $1000"

\* Variant: the root validator without the stock rule
validate_business_rules_norule(values) == Ok(values)

\* ProductCreate.validate_business_rules.  values holds the fields that
\* validated: a field that failed is missing, and values.get gives None
\* (here the empty set).
validate_business_rules(values) ==
    LET not_in_stock == values.in_stock = {} \/ values.in_stock = {FALSE}
        price_over == \E amount \in values.price :
                          amount > 100 * StockPriceLimit
    IN  IF not_in_stock /\ price_over THEN Fail(StockPriceMsg)
        ELSE Ok(values)

NoData ==
    [name |-> <<>>, sku |-> "", price_amount |-> 0, tags |-> <<>>,
     in_stock |-> TRUE]

FieldErrors(field, result) ==
    IF result.ok THEN <<>> ELSE (field :> result.error)

\* ProductCreate(**body): every field is validated, then the root
\* validator runs on the fields that passed; a failure is pydantic's
\* validation error with one entry per failed field.
ProductCreate(raw) ==
    LET name     == NameField(raw.name)
        price    == AmountField(raw.price)
        tags     == TagsField(raw.tags)
        in_stock == InStockField(raw.in_stock)
        values   == [price    |-> IF price.ok THEN {price.value} ELSE {},
                     in_stock |-> IF in_stock.ok THEN {in_stock.value}
                                  ELSE {}]
        root     == validate_business_rules(values)
        errors   == FieldErrors("name", name) @@ FieldErrors("price", price)
                      @@ FieldErrors("tags", tags)
                      @@ FieldErrors("in_stock", in_stock)
                      @@ FieldErrors("__root__", root)
    IN  IF name.ok /\ price.ok /\ tags.ok /\ in_stock.ok /\ root.ok
        THEN [ok |-> TRUE,
              data |-> [name |-> name.value, sku |-> raw.sku,
                        price_amount |-> price.value, tags |-> tags.value,
                        in_stock |-> in_stock.value],
              errors |-> <<>>]
        ELSE [ok |-> FALSE, data |-> NoData, errors |-> errors]

\* ------------------------------------------------------------------------
\* Bodies that vary stock and price
\* ------------------------------------------------------------------------
RawAmounts ==
    { <<"1","0","0","0">>,
      <<"1","0","0","0",".","0","1">>,
      <<"1","0","0","0",".","0","0","1">> }

RawBools == {"absent", "false", "off", "maybe"}

StockPayloads ==
    {Body(<<"d","e","s","k">>, "ABC-12345", a, <<>>, b) :
         a \in RawAmounts, b \in RawBools}

\* ------------------------------------------------------------------------
\* Bodies that vary the tag list
\* ------------------------------------------------------------------------
MaxTagList == 2

SampleTags ==
    { <<"a">>, <<"A">>, <<" ","a">>, <<"b">>, <<"B"," ">>, <<>>, <<" ">>,
      [i \in 1 .. TagMaxLength + 1 |-> "x"] }

\* n distinct two-letter tags
DistinctTags(n) == [i \in 1 .. n |-> <<"t", LowerAlpha[i]>>]

TagLists ==
    UNION {[1 .. n -> SampleTags] : n \in 0 .. MaxTagList}
      \cup {DistinctTags(MaxTags), DistinctTags(MaxTags + 1),
            [DistinctTags(MaxTags) EXCEPT ![MaxTags] = <<"T","a"," ">>]}

\* A create request that carries the tag list
TagBody(tags) ==
    Body(<<"d","e","s","k">>, "ABC-12345", <<"9",".","9","9">>, tags, "absent")

TagPayloads == {TagBody(t) : t \in TagLists}

\* The parse of every request body of the model, as a table
AllPayloads == RawPayloads \cup StockPayloads \cup TagPayloads
ParsedBodies == {<<r, ProductCreate(r)>> : r \in AllPayloads}
Parsed == [r \in AllPayloads |->
              (CHOOSE b \in ParsedBodies : b[1] = r)[2]]

\* Payloads that pass structural validation
ValidPayloads == {Parsed[r].data : r \in {q \in RawPayloads : Parsed[q].ok}}

\* ------------------------------------------------------------------------
\* The products table
\* ------------------------------------------------------------------------
\* Columns of class Product
ProductColumns ==
    {"id", "name", "sku", "description", "price_amount", "price_currency",
     "tags", "dimensions", "images", "in_stock", "category_id",
     "created_at", "updated_at"}

\* Query.first(): the set holding the first matching row, {} for None
QueryFirst(rows) ==
    IF rows = {} THEN {}
    ELSE {CHOOSE r \in rows : \A q \in rows : r.id <= q.id}

\* Variant: column sku declared without unique=True
UniqueViolationDropped(table, row) == FALSE

\* unique=True on column sku; column name is only indexed
UniqueViolation(table, row) == \E p \in table : p.sku = row.sku

\* Product(name=..., sku=..., ...) with the primary key the insert assigns
NewProduct(table, product_data) ==
    [id |-> Cardinality(table) + 1,
     name |-> product_data.name,
     sku |-> product_data.sku,
     price_amount |-> product_data.price_amount,
     tags |-> product_data.tags,
     in_stock |-> product_data.in_stock]

\* ------------------------------------------------------------------------
\* Exceptions and responses
\* ------------------------------------------------------------------------
NoExc == [type |-> "None", status |-> 0, errors |-> <<>>]
HTTPException(code, errs) ==
    [type |-> "HTTPException", status |-> code, errors |-> errs]
IntegrityError == [type |-> "IntegrityError", status |-> 0, errors |-> <<>>]
RequestValidationError(errs) ==
    [type |-> "RequestValidationError", status |-> 0, errors |-> errs]
ValueError == [type |-> "ValueError", status |-> 0, errors |-> <<>>]
AttributeError == [type |-> "AttributeError", status |-> 0, errors |-> <<>>]

NoResp == [status |-> 0, errors |-> <<>>, body |-> {}]
Response(code, errs, b) == [status |-> code, errors |-> errs, body |-> b]

\* ValidationResponse(valid=..., errors=..., message=...), sent with 200
ValidationResponse(business_errors) ==
    Response(200, business_errors,
             {[valid |-> business_errors = <<>>,
               message |-> IF business_errors = <<>>
                           THEN "Datos válidos"
                           ELSE "Se encontraron errores"]})

\* The handlers registered by add_exception_handlers, over FastAPI's
\* defaults: HTTPException answers with its own status, anything
\* unhandled is a 500.
ExceptionResponse(exc) ==
    CASE exc.type = "RequestValidationError" -> Response(422, exc.errors, {})
      [] exc.type = "IntegrityError"         -> Response(409, <<>>, {})
      [] exc.type = "HTTPException"          -> Response(exc.status, exc.errors, {})
      [] OTHER                               -> Response(500, <<>>, {})

\* Variant: the endpoint without its "except HTTPException: raise" clause
EndpointExceptCatchAll(exc) == HTTPException(500, <<>>)

\* create_product's try/except: HTTPException passes through, any other
\* exception is replaced by HTTPException(500)
EndpointExcept(exc) ==
    IF exc.type = "HTTPException" THEN exc ELSE HTTPException(500, <<>>)

\* ------------------------------------------------------------------------
\* Business validation and persistence
\* ------------------------------------------------------------------------
\* Variant: the name check written as an elif of the SKU check
validate_business_constraints_elif(table, product_data) ==
    LET existing_sku  == QueryFirst({p \in table : p.sku = product_data.sku})
        existing_name == QueryFirst({p \in table : p.name = product_data.name})
    IN  IF existing_sku # {} THEN ("sku" :> SkuExistsMsg)
        ELSE IF existing_name # {} THEN ("name" :> NameExistsMsg)
        ELSE <<>>

\* ValidationService.validate_business_constraints
validate_business_constraints(table, product_data) ==
    LET existing_sku  == QueryFirst({p \in table : p.sku = product_data.sku})
        existing_name == QueryFirst({p \in table : p.name = product_data.name})
        errors0 == <<>>
        errors1 == IF existing_sku # {}
                   THEN ("sku" :> SkuExistsMsg) @@ errors0 ELSE errors0
        errors2 == IF existing_name # {}
                   THEN ("name" :> NameExistsMsg) @@ errors1 ELSE errors1
    IN  errors2

\* ProductService.create_product: add, commit, refresh.  The commit raises
\* IntegrityError when the table's constraints reject the row.
ServiceCreateProduct(table, product_data) ==
    LET db_product == NewProduct(table, product_data) IN
    IF UniqueViolation(table, db_product)
    THEN [exc |-> IntegrityError, table |-> table, body |-> {}]
    ELSE [exc |-> NoExc, table |-> table \cup {db_product},
          body |-> {db_product}]

\* ------------------------------------------------------------------------
\* Product requests
\* ------------------------------------------------------------------------
IdleReq ==
    [pc |-> "idle", kind |-> "none", product_data |-> NoData,
     business_errors |-> <<>>]

NoLast ==
    [kind |-> "none", product_data |-> NoData, business_errors |-> <<>>,
     raised |-> "None", resp |-> NoResp, repeat |-> FALSE]

\* The answer to a request leaves the server.  Field repeat is history:
\* the request is a validate call that directly follows a validate call
\* with the same input.
Answer(kind, product_data, business_errors, exc_type, response) ==
    [kind |-> kind,
     product_data |-> product_data,
     business_errors |-> business_errors,
     raised |-> exc_type,
     resp |-> response,
     repeat |-> /\ kind = "validate"
                /\ last.kind = "validate"
                /\ last.product_data = product_data]

\* The body did not parse into ProductCreate: the endpoint is not entered
RejectBody(kind, parsed) ==
    Answer(kind, NoData, <<>>, "RequestValidationError",
           ExceptionResponse(RequestValidationError(parsed.errors)))

\* POST /products/, up to the call of ProductService.create_product: the
\* body is parsed, then create_product runs the pre-check and raises 422
\* on a non-empty mapping
CreateProductValidate(c, raw) ==
    /\ req[c].pc = "idle"
    /\ LET parsed == Parsed[raw]
           business_errors ==
               validate_business_constraints(products, parsed.data)
       IN IF ~parsed.ok
          THEN /\ req' = req
               /\ last' = RejectBody("create", parsed)
          ELSE IF business_errors # <<>>
          THEN /\ req' = req
               /\ last' = Answer("create", parsed.data, business_errors,
                             "HTTPException",
                             ExceptionResponse(EndpointExcept(
                                 HTTPException(422, business_errors))))
          ELSE /\ req' = [req EXCEPT ![c] =
                     [pc |-> "creating", kind |-> "create",
                      product_data |-> parsed.data,
                      business_errors |-> business_errors]]
               /\ last' = last
    /\ UNCHANGED <<products, rvars, avars, dvars>>

\* POST /products/, the rest: ProductService.create_product and the
\* endpoint's except clauses
CreateProductPersist(c) ==
    /\ req[c].pc = "creating"
    /\ LET r == ServiceCreateProduct(products, req[c].product_data) IN
       /\ products' = r.table
       /\ req' = [req EXCEPT ![c] = IdleReq]
       /\ IF r.exc.type = "None"
          THEN last' = Answer("create", req[c].product_data,
                              req[c].business_errors, "None",
                              Response(201, <<>>, r.body))
          ELSE last' = Answer("create", req[c].product_data,
                              req[c].business_errors, r.exc.type,
                              ExceptionResponse(EndpointExcept(r.exc)))
    /\ UNCHANGED <<rvars, avars, dvars>>

\* Variant: the validate endpoint also persists a payload it finds valid
ValidateProductPersists(raw) ==
    /\ LET parsed == Parsed[raw]
           business_errors ==
               validate_business_constraints(products, parsed.data)
       IN IF ~parsed.ok
          THEN /\ last' = RejectBody("validate", parsed)
               /\ products' = products
          ELSE /\ last' = Answer("validate", parsed.data, business_errors,
                                 "None", ValidationResponse(business_errors))
               /\ products' =
                     IF business_errors = <<>>
                     THEN ServiceCreateProduct(products, parsed.data).table
                     ELSE products
    /\ UNCHANGED <<req, rvars, avars, dvars>>

\* POST /products/validate: the body is parsed, then validate_product runs
ValidateProduct(raw) ==
    /\ LET parsed == Parsed[raw]
           business_errors ==
               validate_business_constraints(products, parsed.data)
       IN IF ~parsed.ok
          THEN last' = RejectBody("validate", parsed)
          ELSE last' = Answer("validate", parsed.data, business_errors,
                              "None", ValidationResponse(business_errors))
    /\ UNCHANGED <<products, req, rvars, avars, dvars>>

\* ------------------------------------------------------------------------
\* The Redis counter store
\* ------------------------------------------------------------------------
Ips == {"10.0.0.1", "10.0.0.2"}

\* key = f"rate_limit:{request_ip}"
RateKey(request_ip) == "rate_limit:" \o request_ip
RateKeys == {RateKey(ip) : ip \in Ips}

\* ttl follows the TTL command: -2 no such key, -1 key without expiry
NoKey == [exists |-> FALSE, value |-> <<>>, ttl |-> -2]

\* GET key: the stored string, or None (exists = FALSE)
RedisGet(store, key) == [exists |-> store[key].exists, value |-> store[key].value]

\* SETEX key seconds value
RedisSetex(store, key, seconds, value) ==
    [store EXCEPT ![key] =
        [exists |-> TRUE, value |-> IntToStr(value), ttl |-> seconds]]

\* INCR key: a missing key counts from 0 and is created without expiry;
\* an existing key keeps the expiry it has
RedisIncr(store, key) ==
    IF store[key].exists
    THEN [store EXCEPT ![key].value = IntToStr(StrToInt(@).value + 1)]
    ELSE [store EXCEPT ![key] =
             [exists |-> TRUE, value |-> IntToStr(1), ttl |-> -1]]

\* ------------------------------------------------------------------------
\* rate_limit(max_requests, window_minutes).rate_limiter
\* ------------------------------------------------------------------------
\* Variant: the limit tested with > instead of >=
RateLimiterDecideOffByOne(store, key, current, max, window) ==
    IF ~current.exists
    THEN [store |-> RedisSetex(store, key, window * 60, 1), status |-> 200]
    ELSE IF StrToInt(current.value).value > max
    THEN [store |-> store, status |-> 429]
    ELSE [store |-> RedisIncr(store, key), status |-> 200]

\* Everything after "current = redis_client.get(key)": the store the call
\* leaves and its outcome (200 for "return True", 429 for the exception)
RateLimiterDecide(store, key, current, max, window) ==
    IF ~current.exists
    THEN [store |-> RedisSetex(store, key, window * 60, 1), status |-> 200]
    ELSE IF StrToInt(current.value).value >= max
    THEN [store |-> store, status |-> 429]
    ELSE [store |-> RedisIncr(store, key), status |-> 200]

IdleRateReq == [pc |-> "idle", ip |-> "", current |-> [exists |-> FALSE, value |-> <<>>]]
NoRateLast == [ip |-> "", status |-> 0]

\* History: requests handled / accepted since the ip's counter was last
\* absent
Count(ip, status) ==
    /\ handled' = [handled EXCEPT ![ip] = @ + 1]
    /\ accepted' = [accepted EXCEPT ![ip] = IF status = 200 THEN @ + 1 ELSE @]

\* One request through rate_limiter with nothing else touching the store
RateLimiterSeq(ip) ==
    /\ handled[ip] < MaxHandled
    /\ LET key == RateKey(ip)
           r == RateLimiterDecide(rl, key, RedisGet(rl, key),
                                  max_requests, window_minutes)
       IN /\ rl' = r.store
          /\ rlast' = [ip |-> ip, status |-> r.status]
          /\ Count(ip, r.status)
    /\ UNCHANGED <<max_requests, window_minutes, rreq, pvars, avars, dvars>>

\* rate_limiter up to and including redis_client.get(key)
RateGet(c, ip) ==
    /\ rreq[c].pc = "idle"
    /\ handled[ip] + Cardinality({d \in Clients : rreq[d].ip = ip}) < MaxHandled
    /\ rreq' = [rreq EXCEPT ![c] =
           [pc |-> "got", ip |-> ip, current |-> RedisGet(rl, RateKey(ip))]]
    /\ UNCHANGED <<rl, max_requests, window_minutes, rlast, accepted, handled,
                   pvars, avars, dvars>>

\* rate_limiter from the test of current to its return or raise
RateDecide(c) ==
    /\ rreq[c].pc = "got"
    /\ LET r == RateLimiterDecide(rl, RateKey(rreq[c].ip), rreq[c].current,
                                  max_requests, window_minutes)
       IN /\ rl' = r.store
          /\ rlast' = [ip |-> rreq[c].ip, status |-> r.status]
          /\ Count(rreq[c].ip, r.status)
    /\ rreq' = [rreq EXCEPT ![c] = IdleRateReq]
    /\ UNCHANGED <<max_requests, window_minutes, pvars, avars, dvars>>

\* Redis drops a key whose time-to-live has run out; the ip's window ends
ExpireKey(ip) ==
    /\ rl[RateKey(ip)].exists
    /\ rl[RateKey(ip)].ttl > 0
    /\ rl' = [rl EXCEPT ![RateKey(ip)] = NoKey]
    /\ accepted' = [accepted EXCEPT ![ip] = 0]
    /\ handled' = [handled EXCEPT ![ip] = 0]
    /\ UNCHANGED <<max_requests, window_minutes, rreq, rlast, pvars, avars, dvars>>

\* ------------------------------------------------------------------------
\* Authentication and ownership dependencies
\* ------------------------------------------------------------------------
\* Rows of table "users": id, is_active, is_admin
UserIds == {1, 2}
UserRows == [id : UserIds, is_active : BOOLEAN, is_admin : BOOLEAN]
UserTables ==
    {t \in SUBSET UserRows : \A u, v \in t : u.id = v.id => u = v}

\* Bearer credentials: whether jwt.decode accepts the token, whether its
\* payload has "sub", and the subject string
NoToken == [valid |-> FALSE, has_sub |-> FALSE, sub |-> <<>>]
Subjects == {<<"1">>, <<" ","2">>, <<"7">>, <<"a","b">>}
Tokens ==
    {NoToken, [valid |-> TRUE, has_sub |-> FALSE, sub |-> <<>>]}
      \cup [valid : {TRUE}, has_sub : {TRUE}, sub : Subjects]

Resolved(e, u, p) == [exc |-> e, user |-> u, product |-> p]

\* get_current_user
get_current_user(table, credentials) ==
    LET credentials_exception == HTTPException(401, <<>>) IN
    IF ~credentials.valid
    THEN Resolved(credentials_exception, {}, {})
    ELSE IF ~credentials.has_sub
    THEN Resolved(credentials_exception, {}, {})
    ELSE IF ~StrToInt(credentials.sub).ok
    THEN Resolved(ValueError, {}, {})
    ELSE LET user == QueryFirst({u \in table :
                                   u.id = StrToInt(credentials.sub).value})
         IN IF user = {}
            THEN Resolved(credentials_exception, {}, {})
            ELSE Resolved(NoExc, user, {})

\* get_current_active_user, on the result of get_current_user
get_current_active_user(current_user) ==
    IF current_user.exc # NoExc THEN current_user
    ELSE IF \E u \in current_user.user : ~u.is_active
    THEN Resolved(HTTPException(400, <<>>), current_user.user, {})
    ELSE current_user

\* get_current_admin_user, on the result of get_current_active_user
get_current_admin_user(current_user) ==
    IF current_user.exc # NoExc THEN current_user
    ELSE IF \E u \in current_user.user : ~u.is_admin
    THEN Resolved(HTTPException(403, <<>>), current_user.user, {})
    ELSE current_user

\* Attribute access on a Product instance
HasAttr(attr) == attr \in ProductColumns

\* validate_product_ownership, on the result of get_current_active_user
validate_product_ownership(table, product_id, current_user) ==
    IF current_user.exc # NoExc THEN current_user
    ELSE LET product == QueryFirst({p \in table : p.id = product_id})
             user == CHOOSE u \in current_user.user : TRUE
         IN IF product = {}
            THEN Resolved(HTTPException(404, <<>>), current_user.user, {})
            ELSE IF ~user.is_admin /\ ~HasAttr("owner_id")
            THEN Resolved(AttributeError, current_user.user, {})
            ELSE IF /\ ~user.is_admin
                    /\ \E p \in product : p.owner_id # user.id
            THEN Resolved(HTTPException(403, <<>>), current_user.user, {})
            ELSE Resolved(NoExc, current_user.user, product)

Dependencies == {"current", "active", "admin", "ownership"}
ProductIds == {1, 2, 3}

Resolve(dep, token, product_id) ==
    CASE dep = "current" -> get_current_user(users, token)
      [] dep = "active"  ->
            get_current_active_user(get_current_user(users, token))
      [] dep = "admin"   ->
            get_current_admin_user(
                get_current_active_user(get_current_user(users, token)))
      [] dep = "ownership" ->
            validate_product_ownership(products, product_id,
                get_current_active_user(get_current_user(users, token)))

NoAuthReq ==
    [dep |-> "none", token |-> NoToken, product_id |-> 0, raised |-> "None",
     status |-> 0, user |-> {}, product |-> {}]

\* A request to an endpoint that depends on one of the four dependencies
AuthRequest(dep, token, product_id) ==
    /\ LET r == Resolve(dep, token, product_id) IN
       areq' = [dep |-> dep, token |-> token,
                product_id |-> IF dep = "ownership" THEN product_id ELSE 0,
                raised |-> r.exc.type,
                status |-> IF r.exc = NoExc THEN 200
                           ELSE ExceptionResponse(r.exc).status,
                user |-> r.user,
                product |-> r.product]
    /\ UNCHANGED <<users, pvars, rvars, dvars>>

\* Tables that up to two create requests leave behind
OneCreate == {ServiceCreateProduct({}, d).table : d \in ValidPayloads}
CreatedTables ==
    {{}} \cup OneCreate
         \cup {ServiceCreateProduct(t, d).table :
                   t \in OneCreate, d \in ValidPayloads}

\* ------------------------------------------------------------------------
\* get_db: the session generator FastAPI runs around a request
\* ------------------------------------------------------------------------
\* Exceptions the endpoints and dependencies raise while the session is in
\* use (all are subclasses of Exception)
BodyExceptions ==
    {HTTPException(422, ("sku" :> SkuExistsMsg)), HTTPException(500, <<>>),
     HTTPException(401, <<>>), ValueError, AttributeError}

IdleSess == [pc |-> "idle", thrown |-> NoExc, ops |-> <<>>, out |-> NoExc]

\* db = SessionLocal(); yield db
DbYield(c) ==
    /\ sess[c].pc \in {"idle", "done"}
    /\ sess' = [sess EXCEPT ![c] = [IdleSess EXCEPT !.pc = "yielded"]]
    /\ UNCHANGED <<pvars, rvars, avars, tagreq>>

\* The request finishes without an exception: the generator is resumed
\* and falls through to the finally block
DbBodyReturns(c) ==
    /\ sess[c].pc = "yielded"
    /\ sess' = [sess EXCEPT ![c].pc = "finally"]
    /\ UNCHANGED <<pvars, rvars, avars, tagreq>>

\* The request raises: the exception is thrown into the generator at the
\* yield and caught by "except Exception"
DbBodyRaises(c, e) ==
    /\ sess[c].pc = "yielded"
    /\ sess' = [sess EXCEPT ![c].pc = "except", ![c].thrown = e]
    /\ UNCHANGED <<pvars, rvars, avars, tagreq>>

\* Variant: the except block only logs
DbRollbackMissing(c) ==
    /\ sess[c].pc = "except"
    /\ sess' = [sess EXCEPT ![c].pc = "raise"]
    /\ UNCHANGED <<pvars, rvars, avars, tagreq>>

\* logger.error(...); db.rollback()
DbRollback(c) ==
    /\ sess[c].pc = "except"
    /\ sess' = [sess EXCEPT ![c].pc = "raise",
                            ![c].ops = Append(@, "rollback")]
    /\ UNCHANGED <<pvars, rvars, avars, tagreq>>

\* raise: the caught exception leaves the except block, through finally
DbRaise(c) ==
    /\ sess[c].pc = "raise"
    /\ sess' = [sess EXCEPT ![c].pc = "finally", ![c].out = sess[c].thrown]
    /\ UNCHANGED <<pvars, rvars, avars, tagreq>>

\* finally: db.close(); the generator ends, with the exception if any
DbClose(c) ==
    /\ sess[c].pc = "finally"
    /\ sess' = [sess EXCEPT ![c].pc = "done", ![c].ops = Append(@, "close")]
    /\ UNCHANGED <<pvars, rvars, avars, tagreq>>

DbQuiet == sess = [c \in Clients |-> IdleSess]

\* ------------------------------------------------------------------------
\* The outcome of a create request that carries a tag list
\* ------------------------------------------------------------------------
NoTagReq ==
    [pc |-> "none", tags |-> <<>>, accepted |-> FALSE, errors |-> <<>>,
     stored |-> <<>>]

TagsQuiet == tagreq = NoTagReq

\* The body is parsed into ProductCreate; when it validates, stored is the
\* tags value of the row ProductService.create_product builds from it
CreateWithTags ==
    /\ tagreq.pc = "submitted"
    /\ LET parsed == Parsed[TagBody(tagreq.tags)] IN
       tagreq' = [tagreq EXCEPT
                     !.pc = "answered",
                     !.accepted = parsed.ok,
                     !.errors = parsed.errors,
                     !.stored = IF parsed.ok
                                THEN NewProduct({}, parsed.data).tags
                                ELSE <<>>]
    /\ UNCHANGED <<pvars, rvars, avars, sess>>

\* ------------------------------------------------------------------------
\* Initial states of the three subsystems
\* ------------------------------------------------------------------------
InitProducts ==
    /\ products = {}
    /\ req = [c \in Clients |-> IdleReq]
    /\ last = NoLast

RateQuiet ==
    /\ rl = [k \in RateKeys |-> NoKey]
    /\ max_requests = 100
    /\ window_minutes = 60
    /\ rreq = [c \in Clients |-> IdleRateReq]
    /\ rlast = NoRateLast
    /\ accepted = [ip \in Ips |-> 0]
    /\ handled = [ip \in Ips |-> 0]

AuthQuiet ==
    /\ users = {}
    /\ areq = NoAuthReq

\* ------------------------------------------------------------------------
\* Spec: the product endpoints
\* ------------------------------------------------------------------------
Init == InitProducts /\ RateQuiet /\ AuthQuiet /\ DbQuiet /\ TagsQuiet

Next ==
    \/ \E c \in Clients, raw \in RawPayloads : CreateProductValidate(c, raw)
    \/ \E c \in Clients : CreateProductPersist(c)
    \/ \E raw \in RawPayloads : ValidateProduct(raw)

Spec == Init /\ [][Next]_vars

\* ------------------------------------------------------------------------
\* Claims about the product endpoints
\* ------------------------------------------------------------------------

\* C1: a create request whose commit raised IntegrityError is answered
\* with 409 Conflict (never 500).
C1_IntegrityErrorAnswered409 ==
    last.raised = "IntegrityError" => last.resp.status = 409

\* C2: no two persisted products have the same SKU.
C2_SkuUnique ==
    \A p, q \in products : p.sku = q.sku => p = q

\* Two creates with one SKU both passed the pre-check; one committed and
\* the other was rejected by the table.
C2_Witness ==
    /\ last.raised = "IntegrityError"
    /\ \E p \in products : p.sku = last.product_data.sku

\* C3: no two persisted products have the same (normalized) name.
C3_NameUnique ==
    \A p, q \in products : p.name = q.name => p = q

\* C4: business validation runs before persistence.  A create request
\* whose pre-check returned a non-empty mapping ends with 422 carrying that
\* mapping, the step leaves the table unchanged, and the request reaches
\* ProductService.create_product only with an empty mapping.
C4_ValidationBeforePersistence ==
    /\ [](\A c \in Clients :
            req[c].pc = "creating" =>
                /\ req[c].business_errors = <<>>
                /\ req[c].product_data \in ValidPayloads)
    /\ []((last.kind = "create" /\ last.business_errors # <<>>) =>
            /\ last.resp.status = 422
            /\ last.resp.errors = last.business_errors
            /\ last.resp.body = {})
    /\ [][\A c \in Clients, raw \in RawPayloads :
            (/\ CreateProductValidate(c, raw)
             /\ Parsed[raw].ok
             /\ validate_business_constraints(products,
                                              Parsed[raw].data) # <<>>)
            => /\ products' = products
               /\ req'[c].pc = "idle"
               /\ last'.business_errors =
                     validate_business_constraints(products,
                                                   Parsed[raw].data)]_vars

C4_Witness ==
    /\ last.kind = "create"
    /\ last.business_errors # <<>>
    /\ last.resp.status = 422
    /\ products # {}

\* C5: validate_business_constraints reports key sku (with the SKU
\* message) exactly when a persisted product has the payload's SKU and key
\* name exactly when a persisted product has the payload's name; rows are
\* never removed, so once a create with SKU s has succeeded every later
\* pre-check of a create with SKU s ends in 422 with the sku message.
\* First the mapping over the current table, for every validated payload:
C5_Characterization ==
    \A d \in ValidPayloads :
        LET e == validate_business_constraints(products, d) IN
        /\ DOMAIN e \subseteq {"sku", "name"}
        /\ "sku" \in DOMAIN e <=> \E p \in products : p.sku = d.sku
        /\ "sku" \in DOMAIN e => e["sku"] = SkuExistsMsg
        /\ "name" \in DOMAIN e <=> \E p \in products : p.name = d.name
        /\ "name" \in DOMAIN e => e["name"] = NameExistsMsg

\* C5 in full: the characterization in every reachable state, the table
\* only growing, and every pre-check of a persisted SKU answered 422 with
\* the sku message.
C5_BusinessErrors ==
    /\ []C5_Characterization
    /\ [][products \subseteq products']_vars
    /\ [][\A c \in Clients, raw \in RawPayloads :
            (/\ CreateProductValidate(c, raw)
             /\ Parsed[raw].ok
             /\ \E p \in products : p.sku = Parsed[raw].data.sku)
            => /\ last'.resp.status = 422
               /\ "sku" \in DOMAIN last'.resp.errors
               /\ last'.resp.errors["sku"] = SkuExistsMsg]_vars

\* A create was answered 422 with both keys: an earlier create of the same
\* SKU and name had succeeded.
C5_Witness ==
    /\ last.kind = "create"
    /\ last.resp.status = 422
    /\ DOMAIN last.resp.errors = {"sku", "name"}
    /\ \E p \in products : /\ p.sku = last.product_data.sku
                           /\ p.name = last.product_data.name

\* C8: POST /products/validate never changes the table, and two calls
\* with the same input and no create in between give the same
\* valid / errors result.  (last holds a validate answer only while no
\* other request has been answered since.)
C8_ValidateIdempotent ==
    /\ [][\A raw \in RawPayloads :
            ValidateProduct(raw) => products' = products]_vars
    /\ [][\A raw \in RawPayloads :
            (/\ ValidateProduct(raw)
             /\ Parsed[raw].ok
             /\ last.kind = "validate"
             /\ last.raised = "None"
             /\ last.product_data = Parsed[raw].data)
            => last'.resp = last.resp]_vars

\* The validate call answered last repeated the one before it and
\* reported errors.
C8_Witness ==
    /\ last.kind = "validate"
    /\ last.repeat
    /\ last.resp.errors # <<>>
    /\ \E b \in last.resp.body : ~b.valid

\* ------------------------------------------------------------------------
\* SpecRateSeq: the rate limiter, requests handled one after another
\* SpecRate:    the rate limiter, GET and SETEX/INCR as separate steps
\* ------------------------------------------------------------------------
ProductsQuiet ==
    /\ products = {}
    /\ req = [c \in Clients |-> IdleReq]
    /\ last = NoLast

InitRate ==
    /\ rl = [k \in RateKeys |-> NoKey]
    /\ max_requests \in 1 .. MaxMaxRequests
    /\ window_minutes \in 1 .. MaxWindowMinutes
    /\ rreq = [c \in Clients |-> IdleRateReq]
    /\ rlast = NoRateLast
    /\ accepted = [ip \in Ips |-> 0]
    /\ handled = [ip \in Ips |-> 0]
    /\ ProductsQuiet
    /\ AuthQuiet
    /\ DbQuiet
    /\ TagsQuiet

NextRateSeq ==
    \/ \E ip \in Ips : RateLimiterSeq(ip)
    \/ \E ip \in Ips : ExpireKey(ip)

SpecRateSeq == InitRate /\ [][NextRateSeq]_vars

\* The concurrent requests come from one IP: the counters of different IPs
\* are different keys
RaceIps == {"10.0.0.1"}

NextRate ==
    \/ \E c \in Clients, ip \in RaceIps : RateGet(c, ip)
    \/ \E c \in Clients : RateDecide(c)
    \/ \E ip \in RaceIps : ExpireKey(ip)

SpecRate == InitRate /\ [][NextRate]_vars

Min(a, b) == IF a < b THEN a ELSE b

\* C6: with requests from one IP handled one after another inside one
\* window, exactly the first max_requests requests are accepted and every
\* later one is answered 429.
C6_FirstNAccepted ==
    /\ [](\A ip \in Ips : accepted[ip] = Min(handled[ip], max_requests))
    /\ [][\A ip \in Ips :
            RateLimiterSeq(ip) =>
              /\ rlast'.status = IF handled[ip] < max_requests
                                  THEN 200 ELSE 429
              /\ rlast'.ip = ip]_vars

\* The request after the max_requests-th of a window was answered 429.
C6_Witness ==
    \E ip \in Ips :
        /\ handled[ip] = max_requests + 1
        /\ accepted[ip] = max_requests
        /\ rlast = [ip |-> ip, status |-> 429]

\* C7: every rate-limit counter that exists in the store carries a
\* time-to-live.
C7_EveryCounterHasTtl ==
    \A k \in RateKeys : rl[k].exists => rl[k].ttl > 0

\* The stored counter of ip, 0 when the key is absent
StoredCount(ip) ==
    IF rl[RateKey(ip)].exists THEN StrToInt(rl[RateKey(ip)].value).value
    ELSE 0

\* C14, as stated: under any interleaving of concurrent requests from one
\* IP, with GET and the following SETEX or INCR as separate steps, the
\* number of requests accepted within one window never exceeds
\* max_requests and the stored counter never exceeds max_requests; a
\* rejected request leaves the counter and its time-to-live unchanged.
C14_NeverExceedsMax ==
    /\ [](\A ip \in Ips :
             accepted[ip] <= max_requests /\ StoredCount(ip) <= max_requests)
    /\ [][\A c \in Clients :
            (RateDecide(c) /\ rlast'.status = 429) => rl' = rl]_vars

\* C14, amended: a request is accepted exactly when its own GET returned
\* no counter or a value below max_requests, so with at most MaxClients
\* requests in flight the stored counter never exceeds
\* max_requests + MaxClients - 1 (the number accepted within one window
\* is not bounded by max_requests); a rejected request leaves the counter
\* and its time-to-live unchanged.
C14_BoundedOvershoot ==
    /\ [](\A ip \in Ips : StoredCount(ip) <= max_requests + MaxClients - 1)
    /\ [][\A c \in Clients :
            RateDecide(c) =>
              (rlast'.status = 200
                 <=> \/ ~rreq[c].current.exists
                     \/ StrToInt(rreq[c].current.value).value < max_requests)
         ]_vars
    /\ [][\A c \in Clients :
            (RateDecide(c) /\ rlast'.status = 429) => rl' = rl]_vars

\* Concurrent requests pushed the counter and the number accepted above
\* max_requests, and the request after them was rejected.
C14_Witness ==
    \E ip \in Ips :
        /\ StoredCount(ip) > max_requests
        /\ accepted[ip] > max_requests
        /\ rlast = [ip |-> ip, status |-> 429]

\* ------------------------------------------------------------------------
\* SpecAuth: the authentication tiers and the ownership guard
\* ------------------------------------------------------------------------
InitAuth ==
    /\ users \in UserTables
    /\ products \in CreatedTables
    /\ areq = NoAuthReq
    /\ req = [c \in Clients |-> IdleReq]
    /\ last = NoLast
    /\ RateQuiet
    /\ DbQuiet
    /\ TagsQuiet

NextAuth ==
    \E dep \in Dependencies, token \in Tokens, product_id \in ProductIds :
        AuthRequest(dep, token, product_id)

SpecAuth == InitAuth /\ [][NextAuth]_vars

\* The user row a token's subject names, if any
Named(token) ==
    IF token.valid /\ token.has_sub /\ StrToInt(token.sub).ok
    THEN {u \in users : u.id = StrToInt(token.sub).value}
    ELSE {}

\* C9: the tiers are strictly layered.  A token that does not decode, has
\* no subject or names no existing user is answered 401; a resolved
\* inactive user is answered 400 by the active and admin tiers; a resolved
\* active non-admin is answered 403 by the admin tier; every other request
\* succeeds with the resolved user.
C9_AuthTiers ==
    areq.dep \in {"current", "active", "admin"} =>
        IF Named(areq.token) = {}
        THEN areq.status = 401
        ELSE LET u == CHOOSE u \in Named(areq.token) : TRUE IN
             IF areq.dep \in {"active", "admin"} /\ ~u.is_active
             THEN areq.status = 400
             ELSE IF areq.dep = "admin" /\ ~u.is_admin
             THEN areq.status = 403
             ELSE areq.status = 200 /\ areq.user = {u}

\* C10: for an active authenticated requester, validate_product_ownership
\* answers 404 when no product has the id, 403 when the requester is
\* neither admin nor the product's owner, and returns the product
\* otherwise.
C10_Ownership ==
    (/\ areq.dep = "ownership"
     /\ \E u \in Named(areq.token) : u.is_active) =>
        LET u == CHOOSE u \in Named(areq.token) : TRUE
            found == {p \in products : p.id = areq.product_id}
            owner(p) == HasAttr("owner_id") /\ p.owner_id = u.id
        IN IF found = {}
           THEN areq.status = 404
           ELSE IF ~u.is_admin /\ \A p \in found : ~owner(p)
           THEN areq.status = 403
           ELSE areq.status = 200 /\ areq.product = found

\* ------------------------------------------------------------------------
\* SpecDb: the database session of each request
\* ------------------------------------------------------------------------
InitDb == DbQuiet /\ ProductsQuiet /\ RateQuiet /\ AuthQuiet /\ TagsQuiet

NextDb ==
    \/ \E c \in Clients : DbYield(c)
    \/ \E c \in Clients : DbBodyReturns(c)
    \/ \E c \in Clients, e \in BodyExceptions : DbBodyRaises(c, e)
    \/ \E c \in Clients : DbRollback(c)
    \/ \E c \in Clients : DbRaise(c)
    \/ \E c \in Clients : DbClose(c)

SpecDb == InitDb /\ [][NextDb]_vars

\* How often op occurs in the sequence ops
Occurrences(ops, op) == Cardinality({i \in 1 .. Len(ops) : ops[i] = op})

\* C11: the session of a request is closed exactly once, when the request
\* ends, whether it succeeded or failed; when an exception was raised
\* while the session was in use, rollback came before close and the same
\* exception is propagated.
C11_SessionClosedOnce ==
    \A c \in Clients :
        /\ Occurrences(sess[c].ops, "close") =
               IF sess[c].pc = "done" THEN 1 ELSE 0
        /\ sess[c].pc = "done" =>
               IF sess[c].thrown = NoExc
               THEN sess[c].ops = <<"close">> /\ sess[c].out = NoExc
               ELSE /\ sess[c].ops = <<"rollback", "close">>
                    /\ sess[c].out = sess[c].thrown

\* One request ended normally and one ended with an exception.
C11_Witness ==
    \E c, d \in Clients :
        /\ sess[c].pc = "done" /\ sess[c].thrown = NoExc
        /\ sess[d].pc = "done" /\ sess[d].thrown # NoExc
        /\ sess[d].ops = <<"rollback", "close">>

\* ------------------------------------------------------------------------
\* SpecStock: the product endpoints under bodies that vary stock and price
\* ------------------------------------------------------------------------
NextStock ==
    \/ \E c \in Clients, raw \in StockPayloads : CreateProductValidate(c, raw)
    \/ \E c \in Clients : CreateProductPersist(c)
    \/ \E raw \in StockPayloads : ValidateProduct(raw)

SpecStock == Init /\ [][NextStock]_vars

\* The body says in_stock false and an amount above the limit, read off
\* the texts of the body
OutOfStockOverLimit(raw) ==
    LET d == SplitDecimal(raw.price) IN
    /\ raw.in_stock \in BoolFalse
    /\ d.ok
    /\ \/ DigitsValue(d.whole) > StockPriceLimit
       \/ DigitsValue(d.whole) = StockPriceLimit /\ DigitsValue(d.frac) > 0

OverLimitPayloads == {raw \in StockPayloads : OutOfStockOverLimit(raw)}

\* The request was refused by the validation of the body: 422, the
\* endpoint was not entered, no query ran, no row was stored
RefusedBeforeDatabase ==
    /\ last'.raised = "RequestValidationError"
    /\ last'.resp.status = 422
    /\ last'.business_errors = <<>>
    /\ products' = products
    /\ req' = req

\* C12: every persisted product has in_stock true or a price amount of at
\* most 1000; a payload with in_stock false and price.amount > 1000 is
\* rejected by structural validation before any database access; no
\* other operation stores a product.
C12_StockPriceRule ==
    /\ [](\A p \in products :
             p.in_stock \/ p.price_amount <= 100 * StockPriceLimit)
    /\ [][\A c \in Clients, raw \in OverLimitPayloads :
            CreateProductValidate(c, raw) => RefusedBeforeDatabase]_vars
    /\ [][\A raw \in OverLimitPayloads :
            ValidateProduct(raw) => RefusedBeforeDatabase]_vars
    /\ [][products' # products =>
            \E c \in Clients :
                /\ CreateProductPersist(c)
                /\ products' = products
                     \cup {NewProduct(products, req[c].product_data)}]_vars

\* An out-of-stock product at exactly the limit is stored, and the last
\* request was refused by the stock rule.
C12_Witness ==
    /\ \E p \in products :
           ~p.in_stock /\ p.price_amount = 100 * StockPriceLimit
    /\ last.raised = "RequestValidationError"
    /\ "__root__" \in DOMAIN last.resp.errors

\* ------------------------------------------------------------------------
\* SpecTags: ProductCreate applied to every tag list of TagLists
\* ------------------------------------------------------------------------
InitTags ==
    /\ tagreq \in {[NoTagReq EXCEPT !.pc = "submitted", !.tags = t] :
                      t \in TagLists}
    /\ ProductsQuiet /\ RateQuiet /\ AuthQuiet /\ DbQuiet

NextTags == CreateWithTags

SpecTags == InitTags /\ [][NextTags]_vars

\* Per-item normalization as the claim words it: strip, then lowercase
Normalized(tag) == StrLower(StrStrip(tag))

\* C13: a tag list in which two entries become equal after per-item
\* normalization is rejected; an accepted tag list, as stored, is
\* lowercase, free of duplicates and of at most 10 entries.
C13_TagsNormalizedUnique ==
    tagreq.pc = "answered" =>
        /\ (\E i, j \in 1 .. Len(tagreq.tags) :
               i # j /\ Normalized(tagreq.tags[i]) = Normalized(tagreq.tags[j]))
             => ~tagreq.accepted
        /\ tagreq.accepted =>
             /\ \A i \in 1 .. Len(tagreq.stored) :
                    \A k \in 1 .. Len(tagreq.stored[i]) :
                        ~IsUpperCh(tagreq.stored[i][k])
             /\ \A i, j \in 1 .. Len(tagreq.stored) :
                    i # j => tagreq.stored[i] # tagreq.stored[j]
             /\ Len(tagreq.stored) <= MaxTags

\* Two entries that differ as sent and agree once normalized were rejected
\* as duplicates.
C13_Witness ==
    /\ tagreq.pc = "answered"
    /\ ~tagreq.accepted
    /\ tagreq.errors = ("tags" :> DuplicateTagsMsg)
    /\ Len(tagreq.tags) = 2
    /\ tagreq.tags[1] # tagreq.tags[2]
====
